---- MODULE Spec2Model ----
(***************************************************************************)
(* A model of the mango-v4 sanctum swap composer (lib/client/src/swap/     *)
(* sanctum.rs), of the flash-loan envelope it targets and of the token     *)
(* registration records (programs/mango-v4).                               *)
(*                                                                         *)
(* u64 values are kept at their full width: an amount is a sequence of     *)
(* 15-bit limbs, least significant first, without leading zero limbs       *)
(* (<<>> is 0, <<995>> is 995).  An f64 is a record [neg, m, e] standing   *)
(* for (-1)^neg * m * 2^e with m < 2^53 + 1, and every f64 operation       *)
(* rounds to nearest, ties to even, as the hardware does.  Strings are     *)
(* sequences of one-character strings.                                     *)
(***************************************************************************)
EXTENDS Integers, Sequences, FiniteSets, TLC

\* ------------------------------------------------------------------------
\* u64 arithmetic on limbs
\* ------------------------------------------------------------------------

LimbBits == 15

LimbBase == 2^LimbBits

RECURSIVE Norm(_)
\* drop the most significant zero limbs
Norm(a) ==
    IF a = <<>> THEN <<>>
    ELSE IF a[Len(a)] = 0 THEN Norm(SubSeq(a, 1, Len(a) - 1))
    ELSE a

RECURSIVE FromInt(_)
FromInt(n) ==
    IF n = 0 THEN <<>> ELSE <<n % LimbBase>> \o FromInt(n \div LimbBase)

Limb(a, i) == IF i <= Len(a) THEN a[i] ELSE 0

RECURSIVE AddC(_, _, _, _)
AddC(a, b, i, c) ==
    IF i > Len(a) /\ i > Len(b)
    THEN (IF c = 0 THEN <<>> ELSE <<c>>)
    ELSE LET s == Limb(a, i) + Limb(b, i) + c
         IN  <<s % LimbBase>> \o AddC(a, b, i + 1, s \div LimbBase)

BAdd(a, b) == AddC(a, b, 1, 0)

RECURSIVE SubC(_, _, _, _)
SubC(a, b, i, c) ==
    IF i > Len(a) THEN <<>>
    ELSE LET s == Limb(a, i) - Limb(b, i) - c
         IN  IF s < 0 THEN <<s + LimbBase>> \o SubC(a, b, i + 1, 1)
             ELSE <<s>> \o SubC(a, b, i + 1, 0)

\* a - b, for a >= b
BSub(a, b) == Norm(SubC(a, b, 1, 0))

RECURSIVE CmpFrom(_, _, _)
CmpFrom(a, b, i) ==
    IF i = 0 THEN 0
    ELSE IF a[i] < b[i] THEN -1
    ELSE IF a[i] > b[i] THEN 1
    ELSE CmpFrom(a, b, i - 1)

\* -1, 0, 1 as a < b, a = b, a > b
BCmp(a, b) ==
    IF Len(a) < Len(b) THEN -1
    ELSE IF Len(a) > Len(b) THEN 1
    ELSE CmpFrom(a, b, Len(a))

RECURSIVE MulSmallC(_, _, _, _)
MulSmallC(a, k, i, c) ==
    IF i > Len(a) THEN (IF c = 0 THEN <<>> ELSE <<c>>)
    ELSE LET s == a[i] * k + c
         IN  <<s % LimbBase>> \o MulSmallC(a, k, i + 1, s \div LimbBase)

\* a * k, for 0 <= k < LimbBase
BMulSmall(a, k) == Norm(MulSmallC(a, k, 1, 0))

RECURSIVE BMul(_, _)
BMul(a, b) ==
    IF b = <<>> \/ a = <<>> THEN <<>>
    ELSE LET rest == BMul(a, Tail(b))
         IN  BAdd(BMulSmall(a, Head(b)),
                  IF rest = <<>> THEN <<>> ELSE <<0>> \o rest)

RECURSIVE DivSmallC(_, _, _, _)
\* long division by a small k from the most significant limb down;
\* <<quotient limbs, remainder>>
DivSmallC(a, k, i, r) ==
    IF i = 0 THEN <<<<>>, r>>
    ELSE LET cur  == r * LimbBase + a[i]
             rest == DivSmallC(a, k, i - 1, cur % k)
         IN  <<rest[1] \o <<cur \div k>>, rest[2]>>

\* a \div k and a % k, for 0 < k < LimbBase
BDivSmall(a, k) == Norm(DivSmallC(a, k, Len(a), 0)[1])

BModSmall(a, k) == DivSmallC(a, k, Len(a), 0)[2]

RECURSIVE SmallBitLen(_)
SmallBitLen(n) == IF n = 0 THEN 0 ELSE 1 + SmallBitLen(n \div 2)

BBitLen(a) ==
    IF a = <<>> THEN 0 ELSE LimbBits * (Len(a) - 1) + SmallBitLen(a[Len(a)])

\* a * 2^s
BShl(a, s) ==
    IF a = <<>> THEN <<>>
    ELSE [i \in 1..(s \div LimbBits) |-> 0] \o BMulSmall(a, 2^(s % LimbBits))

\* a \div 2^s
BShr(a, s) ==
    IF s \div LimbBits >= Len(a) THEN <<>>
    ELSE BDivSmall(SubSeq(a, (s \div LimbBits) + 1, Len(a)), 2^(s % LimbBits))

BIsOdd(a) == a # <<>> /\ a[1] % 2 = 1

\* u64::MAX = 2^64 - 1
U64Max == BSub(BShl(<<1>>, 64), <<1>>)

\* ------------------------------------------------------------------------
\* f64 arithmetic (round to nearest, ties to even)
\* ------------------------------------------------------------------------

F64MantissaBits == 53

\* the f64 nearest to (-1)^neg * m * 2^e
RoundF64(neg, m, e) ==
    IF BBitLen(m) <= F64MantissaBits THEN [neg |-> neg, m |-> m, e |-> e]
    ELSE LET s    == BBitLen(m) - F64MantissaBits
             q    == BShr(m, s)
             r    == BSub(m, BShl(q, s))
             c    == BCmp(r, BShl(<<1>>, s - 1))
             up   == c = 1 \/ (c = 0 /\ BIsOdd(q))
         IN  [neg |-> neg, m |-> IF up THEN BAdd(q, <<1>>) ELSE q, e |-> e + s]

\* `v as f64` for a u64 v
U64ToF64(v) == RoundF64(FALSE, v, 0)

F64GuardBits == F64MantissaBits + 2 * LimbBits

\* x / k for the f64 x and an integer literal 0 < k < 2^15: the quotient is
\* taken to F64GuardBits extra bits, with a sticky bit for a non-zero rest
F64DivSmall(x, k) ==
    IF x.m = <<>> THEN x
    ELSE LET n  == BShl(x.m, F64GuardBits)
             q  == BDivSmall(n, k)
             st == IF BModSmall(n, k) = 0 THEN <<>> ELSE <<1>>
         IN  RoundF64(x.neg, BAdd(BShl(q, 1), st), x.e - F64GuardBits - 1)

MinInt(a, b) == IF a < b THEN a ELSE b

\* x - y
F64Sub(x, y) ==
    LET e  == MinInt(x.e, y.e)
        xm == BShl(x.m, x.e - e)
        ym == BShl(y.m, y.e - e)
        c  == BCmp(xm, ym)
    IN  IF x.neg # y.neg THEN RoundF64(x.neg, BAdd(xm, ym), e)
        ELSE IF c = 0 THEN [neg |-> FALSE, m |-> <<>>, e |-> 0]
        ELSE IF c = 1 THEN RoundF64(x.neg, BSub(xm, ym), e)
        ELSE RoundF64(~x.neg, BSub(ym, xm), e)

\* x * y
F64Mul(x, y) == RoundF64(x.neg # y.neg, BMul(x.m, y.m), x.e + y.e)

\* x.ceil()
F64Ceil(x) ==
    IF x.e >= 0 THEN x
    ELSE LET q    == BShr(x.m, 0 - x.e)
             frac == BShl(q, 0 - x.e) # x.m
         IN  [neg |-> x.neg,
              m   |-> IF frac /\ ~x.neg THEN BAdd(q, <<1>>) ELSE q,
              e   |-> 0]

\* `x as u64`: truncates toward zero and saturates at 0 and u64::MAX
F64ToU64(x) ==
    IF x.neg THEN <<>>
    ELSE LET v == IF x.e >= 0 THEN BShl(x.m, x.e) ELSE BShr(x.m, 0 - x.e)
         IN  IF BCmp(v, U64Max) = 1 THEN U64Max ELSE v

F64One == [neg |-> FALSE, m |-> <<1>>, e |-> 0]

\* the literal 10_000.0
BpsDenominator == 10000

\* ((quote_amount_u64 as f64) * (1.0 - (max_slippage_bps as f64) / 10_000.0))
\*     .ceil() as u64
SlippageAdjusted(quote_amount_u64, max_slippage_bps) ==
    F64ToU64(F64Ceil(F64Mul(
        U64ToF64(quote_amount_u64),
        F64Sub(F64One, F64DivSmall(U64ToF64(max_slippage_bps), BpsDenominator)))))

\* ------------------------------------------------------------------------
\* strings: parsing and formatting of u64
\* ------------------------------------------------------------------------

Digits == <<"0", "1", "2", "3", "4", "5", "6", "7", "8", "9">>

IsDigit(c) == \E i \in 1..10 : Digits[i] = c

DigitVal(c) == (CHOOSE i \in 1..10 : Digits[i] = c) - 1

RECURSIVE ParseDigits(_, _, _)
\* the digits s[i..], accumulated left to right onto acc
ParseDigits(s, i, acc) ==
    IF i > Len(s) THEN [ok |-> TRUE, v |-> acc]
    ELSE IF ~IsDigit(s[i]) THEN [ok |-> FALSE, err |-> "InvalidDigit"]
    ELSE LET n == BAdd(BMulSmall(acc, 10), FromInt(DigitVal(s[i])))
         IN  IF BCmp(n, U64Max) = 1 THEN [ok |-> FALSE, err |-> "PosOverflow"]
             ELSE ParseDigits(s, i + 1, n)

\* u64::from_str / str::parse::<u64>
ParseU64(s) ==
    IF s = <<>> THEN [ok |-> FALSE, err |-> "Empty"]
    ELSE IF Len(s) = 1 /\ s[1] \in {"+", "-"}
         THEN [ok |-> FALSE, err |-> "InvalidDigit"]
    ELSE IF s[1] = "+" THEN ParseDigits(s, 2, <<>>)
    ELSE ParseDigits(s, 1, <<>>)

RECURSIVE DigitsOf(_)
DigitsOf(v) ==
    IF v = <<>> THEN <<>>
    ELSE DigitsOf(BDivSmall(v, 10)) \o <<Digits[BModSmall(v, 10) + 1]>>

\* u64::to_string
U64ToString(v) == IF v = <<>> THEN <<"0">> ELSE DigitsOf(v)

\* ------------------------------------------------------------------------
\* bounds and input sets
\* ------------------------------------------------------------------------

\* longest instruction list the provider returns
MaxIxs == 3

\* ------------------------------------------------------------------------
\* state
\* ------------------------------------------------------------------------

VARIABLES
    pc,               \* where Sanctum::swap stands: "quote", "prepare", "send",
                      \* "done", "failed" (an Err returned) or "panicked"
    input_mint,       \* arguments of swap
    output_mint,
    max_slippage_bps,
    amount,
    account,          \* the stored mango account: its token position slots
    route,            \* the QuoteResponse quote returned
    http,             \* the requests sent over the network, in order
    swap_response,    \* the provider's answer to POST /swap, once received
    tx_builder,       \* the TransactionBuilder prepare_swap_transaction returned
    error             \* the error swap returned

composerVars == <<pc, input_mint, output_mint, max_slippage_bps, amount,
                  account, route, http, swap_response, tx_builder,
                  error>>

VARIABLES
    tx,               \* the instructions of the transaction being executed
    tx_origin,        \* "composer": a bundle of prepare_swap_transaction;
                      \* "other": a transaction assembled by some other client
    ip,               \* how many instructions of tx have been executed
    txn,              \* the envelope: "NoLoan", "LoanOpen", "Settled", "Rejected"
    bank,             \* per registered token: the Bank record
    positions,        \* per token: the account's indexed balance, negative
                      \* when borrowed
    mint_info,        \* per registered mint: the MintInfo record
    vault,            \* per token: the tokens in the ledger's custody
    holding,          \* per token: the owner's external token account
    loan,             \* what Begin recorded, for the transaction only
    health_check,     \* what End's solvency check saw: pre, post, kind
    committed         \* bank, positions, vault and holding before the transaction

envelopeVars == <<tx, tx_origin, ip, txn, bank, positions, mint_info, vault,
                  holding, loan, health_check, committed>>

None == [some |-> FALSE]

Some(v) == [some |-> TRUE, v |-> v]

\* pubkeys are tuples of strings
system_program == <<"system_program">>

ata_program == <<"associated_token_program">>

token_program == <<"token_program">>

compute_budget_program == <<"compute_budget_program">>

mango_v4 == <<"mango_v4">>

sanctum_program == <<"sanctum_router">>

instructions_sysvar == <<"sysvar_instructions">>

owner == <<"owner">>

mango_account_address == <<"mango_account">>

group == <<"group">>

\* MangoClient.context: the registered tokens
Mints == {<<"mintA">>, <<"mintB">>}

token_by_mint(mint) ==
    [mint        |-> mint,
     token_index |-> IF mint = <<"mintA">> THEN 0 ELSE 1]

TokenNames == <<"token0", "token1", "token2", "token3">>

first_bank(token) == <<"bank", TokenNames[token.token_index + 1]>>

first_vault(token) == <<"vault", TokenNames[token.token_index + 1]>>

get_associated_token_address(wallet, mint) == <<"ata", wallet[1], mint[1]>>

to_writable_account_meta(k) == [pubkey |-> k, is_writable |-> TRUE]

to_readonly_account_meta(k) == [pubkey |-> k, is_writable |-> FALSE]

\* keys.into_iter().map(util::to_writable_account_meta).collect()
WritableMetas(keys) == [i \in 1..Len(keys) |-> to_writable_account_meta(keys[i])]

\* &s[from..to] of Rust: 0-based, `to` excluded
Slice(s, from, to) == SubSeq(s, from + 1, to)

\* ------------------------------------------------------------------------
\* the stored account
\* ------------------------------------------------------------------------

\* MangoAccount::ensure_token_position: the position exists, or takes a free
\* slot, or the account is full
ensure_token_position(acc, token_index) ==
    IF token_index \in acc.tokens THEN [ok |-> TRUE, account |-> acc]
    ELSE IF Cardinality(acc.tokens) < acc.slots
         THEN [ok |-> TRUE,
               account |-> [acc EXCEPT !.tokens = @ \cup {token_index}]]
    ELSE [ok |-> FALSE, account |-> acc]

\* the accounts a client may hold: token positions in use, of `slots` slots
Accounts ==
    {[slots |-> 2, tokens |-> {}],
     [slots |-> 2, tokens |-> {0}],
     [slots |-> 2, tokens |-> {0, 2}],
     [slots |-> 2, tokens |-> {2, 3}]}

\* ------------------------------------------------------------------------
\* Sanctum::quote
\* ------------------------------------------------------------------------

\* what the provider may answer to GET /swap/quote
InAmounts ==
    {None, Some(<<"1", "0", "0">>), Some(<<"+", "7">>), Some(<<"1", "x">>)}

OutAmounts ==
    {<<"1", "0", "0", "0">>, <<"1", "0">>, <<"x">>,
     \* 2^64, the first integer that is no u64
     <<"1", "8", "4", "4", "6", "7", "4", "4", "0", "7", "3", "7", "0", "9",
       "5", "5", "1", "6", "1", "6">>}

QuoteResponses ==
    {[in_amount  |-> i,
      out_amount |-> o,
      fee_amount |-> <<"1">>,
      fee_mint   |-> <<"mintB">>,
      fee_pct    |-> <<"0", ".", "1">>,
      swap_src   |-> <<"Stakedex">>] : i \in InAmounts, o \in OutAmounts}

QuoteOutcomes ==
    {[kind |-> "send_error"], [kind |-> "bad_response"]}
        \cup {[kind |-> "ok", quote |-> q] : q \in QuoteResponses}

Ok(v) == [outcome |-> "ok", value |-> v, error |-> <<>>]

Err(e) == [outcome |-> "err", value |-> None, error |-> <<e>>]

Panic(e) == [outcome |-> "panic", value |-> None, error |-> <<e>>]

\* mutant: the check for distinct mints is missing
SameMint_Missing(in_mint, out_mint) == FALSE

\* if input_mint == output_mint { bail!(...) }
SameMint(in_mint, out_mint) == in_mint = out_mint

\* the request of quote
QuoteRequest(in_mint, out_mint, amt) ==
    [call          |-> "GET /swap/quote",
     input         |-> in_mint,
     outputLstMint |-> out_mint,
     amount        |-> U64ToString(amt)]

\* mutant: the positions are ensured once the provider has answered
quote_RequestBeforeEnsure(in_mint, out_mint, amt, acc, answer) ==
    LET e1 == ensure_token_position(acc, token_by_mint(in_mint).token_index)
        e2 == ensure_token_position(e1.account,
                                    token_by_mint(out_mint).token_index)
        request == QuoteRequest(in_mint, out_mint, amt)
    IN  IF SameMint(in_mint, out_mint)
        THEN [result |-> Err("Need two distinct mint to swap"), sent |-> <<>>]
        ELSE IF answer.kind = "send_error"
        THEN [result |-> Err("quote request to sanctum"), sent |-> <<request>>]
        ELSE IF answer.kind = "bad_response"
        THEN [result |-> Err("error requesting sanctum route"),
              sent   |-> <<request>>]
        ELSE IF ~e1.ok \/ ~e2.ok
        THEN [result |-> Err("no free token position"), sent |-> <<request>>]
        ELSE [result |-> Ok(answer.quote), sent |-> <<request>>]

\* mutant: a request that could not be sent is sent a second time
quote_RetriesOnError(in_mint, out_mint, amt, acc, answer) ==
    LET e1 == ensure_token_position(acc, token_by_mint(in_mint).token_index)
        e2 == ensure_token_position(e1.account,
                                    token_by_mint(out_mint).token_index)
        request == QuoteRequest(in_mint, out_mint, amt)
    IN  IF SameMint(in_mint, out_mint)
        THEN [result |-> Err("Need two distinct mint to swap"), sent |-> <<>>]
        ELSE IF ~e1.ok \/ ~e2.ok
        THEN [result |-> Err("no free token position"), sent |-> <<>>]
        ELSE IF answer.kind = "send_error"
        THEN [result |-> Err("quote request to sanctum"),
              sent   |-> <<request, request>>]
        ELSE IF answer.kind = "bad_response"
        THEN [result |-> Err("error requesting sanctum route"),
              sent   |-> <<request>>]
        ELSE [result |-> Ok(answer.quote), sent |-> <<request>>]

\* the result of quote and the requests it sent, for the provider answering
\* `answer`
quote(in_mint, out_mint, amt, acc, answer) ==
    LET input_token_index  == token_by_mint(in_mint).token_index
        output_token_index == token_by_mint(out_mint).token_index
        e1 == ensure_token_position(acc, input_token_index)
        e2 == ensure_token_position(e1.account, output_token_index)
        request == QuoteRequest(in_mint, out_mint, amt)
    IN  IF SameMint(in_mint, out_mint)
        THEN [result |-> Err("Need two distinct mint to swap"), sent |-> <<>>]
        ELSE IF ~e1.ok \/ ~e2.ok
        THEN [result |-> Err("no free token position"), sent |-> <<>>]
        ELSE IF answer.kind = "send_error"
        THEN [result |-> Err("quote request to sanctum"), sent |-> <<request>>]
        ELSE IF answer.kind = "bad_response"
        THEN [result |-> Err("error requesting sanctum route"),
              sent   |-> <<request>>]
        ELSE [result |-> Ok(answer.quote), sent |-> <<request>>]

\* ------------------------------------------------------------------------
\* Sanctum::prepare_swap_transaction
\* ------------------------------------------------------------------------

Ix(program_id, accounts, data) ==
    [program_id |-> program_id, accounts |-> accounts, data |-> data]

\* TokenInstruction::SyncNative.pack()
sync_native_pack == [tag |-> "SyncNative"]

\* the instructions a provider transaction is made of
ProviderIxs ==
    {Ix(system_program, <<>>, [tag |-> "Transfer"]),
     Ix(token_program, <<>>, sync_native_pack),
     Ix(token_program, <<>>, [tag |-> "CloseAccount"]),
     Ix(ata_program, <<>>, [tag |-> "Create"]),
     Ix(compute_budget_program, <<>>, [tag |-> "SetComputeUnitLimit"]),
     Ix(sanctum_program, <<>>, [tag |-> "SwapViaStake"])}

RECURSIVE SeqsUpTo(_, _)
\* the sequences over S of length at most n
SeqsUpTo(S, n) ==
    IF n = 0 THEN {<<>>}
    ELSE LET shorter == SeqsUpTo(S, n - 1)
         IN  shorter \cup {Append(s, x) : s \in shorter, x \in S}

ProviderAlts ==
    {<<>>, <<<<"alt_sanctum">>>>, <<<<"alt_sanctum_1">>, <<"alt_sanctum_0">>>>}

\* what the provider may answer to POST /swap, as far as the decoding gets
SwapOutcomes ==
    {[kind |-> "send_error"], [kind |-> "bad_response"],
     [kind |-> "bad_base64"], [kind |-> "bad_bincode"]}
        \cup {[kind |-> "ok", ixs |-> ixs, alts |-> alts] :
                  ixs \in SeqsUpTo(ProviderIxs, MaxIxs), alts \in ProviderAlts}

\* MangoClient::mango_address_lookup_tables
mango_address_lookup_tables == <<<<"alt_mango_0">>, <<"alt_mango_1">>>>

transaction_builder_config == [prioritization_micro_lamports |-> <<>>]

\* mutant: the compute budget program is left out of the allow-list
is_setup_ix_NoComputeBudget(k) == k = ata_program \/ k = token_program

\* these setup instructions should be placed outside of flashloan begin-end
is_setup_ix(k) ==
    k = ata_program \/ k = token_program \/ k = compute_budget_program

\* mutant: only the system-program deposit is removed, SyncNative is kept
NotWrapping_KeepsSyncNative(ix) == ~(ix.program_id = system_program)

\* the filter that removes auto wrapping of SOL->wSOL
NotWrapping(ix) ==
    ~(ix.program_id = system_program)
        /\ ~(ix.program_id = token_program /\ ix.data = sync_native_pack)

sanctum_ixs(sanctum_ixs_orig) == SelectSeq(sanctum_ixs_orig, NotWrapping)

IsActionIx(ix) == ~is_setup_ix(ix.program_id)

\* iter().position(|ix| !is_setup_ix(ix.program_id)), 0-based
PositionOfAction(s) ==
    IF \E i \in 1..Len(s) : IsActionIx(s[i])
    THEN Some((CHOOSE i \in 1..Len(s) :
                   IsActionIx(s[i]) /\ \A j \in 1..(i - 1) : ~IsActionIx(s[j])) - 1)
    ELSE None

Reverse(s) == [i \in 1..Len(s) |-> s[Len(s) + 1 - i]]

sanctum_action_ix_begin(ixs) == PositionOfAction(ixs)

\* mutant: the end of the block is searched from the front, not from the back
sanctum_action_ix_end_FromFront(ixs) == PositionOfAction(ixs).v + 1

\* evaluated only when sanctum_action_ix_begin is Some
sanctum_action_ix_end(ixs) == Len(ixs) - PositionOfAction(Reverse(ixs)).v

\* mutant: the loan is left at its default of 0
source_loan_Zero(q) ==
    IF q.in_amount.some /\ ~ParseU64(q.in_amount.v).ok THEN None
    ELSE Some(<<>>)

\* source_loan: None when the unwrap panics
source_loan(q) ==
    IF ~q.in_amount.some THEN Some(<<>>)
    ELSE IF ParseU64(q.in_amount.v).ok THEN Some(ParseU64(q.in_amount.v).v)
    ELSE None

loan_amounts(q) == <<source_loan(q).v, <<>>>>

num_loans(q) == Len(loan_amounts(q))

RECURSIVE SortedSeq(_)
\* the elements of a set of integers, increasing
SortedSeq(S) ==
    IF S = {} THEN <<>>
    ELSE LET m == CHOOSE x \in S : \A y \in S : x <= y
         IN  <<m>> \o SortedSeq(S \ {m})

\* MangoClient::derive_health_check_remaining_account_metas: banks, then
\* oracles, of the account's positions and of the affected tokens
health_ams(acc, affected_tokens) ==
    LET idx == SortedSeq(acc.tokens \cup affected_tokens)
    IN  [i \in 1..Len(idx) |->
             to_writable_account_meta(<<"bank", TokenNames[idx[i] + 1]>>)]
        \o [i \in 1..Len(idx) |->
             to_readonly_account_meta(<<"oracle", TokenNames[idx[i] + 1]>>)]

create_associated_token_account_idempotent(funder, wallet, mint, program) ==
    Ix(ata_program,
       <<to_writable_account_meta(funder),
         to_writable_account_meta(get_associated_token_address(wallet, mint)),
         to_readonly_account_meta(wallet),
         to_readonly_account_meta(mint),
         to_readonly_account_meta(system_program),
         to_readonly_account_meta(program)>>,
       [tag |-> "CreateIdempotent"])

FlashLoanBegin(in_mint, out_mint, q) ==
    LET source_token == token_by_mint(in_mint)
        target_token == token_by_mint(out_mint)
        bank_ams  == WritableMetas(<<first_bank(source_token), first_bank(target_token)>>)
        vault_ams == WritableMetas(<<first_vault(source_token), first_vault(target_token)>>)
        token_ams == WritableMetas(<<get_associated_token_address(owner, source_token.mint),
                              get_associated_token_address(owner, target_token.mint)>>)
    IN  Ix(mango_v4,
           <<to_writable_account_meta(mango_account_address),
             to_readonly_account_meta(owner),
             to_readonly_account_meta(token_program),
             to_readonly_account_meta(instructions_sysvar)>>
               \o bank_ams \o vault_ams \o token_ams
               \o <<to_readonly_account_meta(group)>>,
           [tag |-> "FlashLoanBegin", loan_amounts |-> loan_amounts(q)])

\* mutant: End is declared with another kind than Swap
FlashLoanEnd_KindOther(in_mint, out_mint, q, acc) ==
    Ix(mango_v4, <<>>,
       [tag             |-> "FlashLoanEndV2",
        num_loans       |-> num_loans(q),
        flash_loan_type |-> "Unknown"])

FlashLoanEnd(in_mint, out_mint, q, acc) ==
    LET source_token == token_by_mint(in_mint)
        target_token == token_by_mint(out_mint)
        vault_ams == WritableMetas(<<first_vault(source_token), first_vault(target_token)>>)
        token_ams == WritableMetas(<<get_associated_token_address(owner, source_token.mint),
                              get_associated_token_address(owner, target_token.mint)>>)
    IN  Ix(mango_v4,
           <<to_writable_account_meta(mango_account_address),
             to_readonly_account_meta(owner),
             to_readonly_account_meta(token_program)>>
               \o health_ams(acc, {source_token.token_index,
                                   target_token.token_index})
               \o vault_ams \o token_ams
               \o <<to_readonly_account_meta(group)>>,
           [tag             |-> "FlashLoanEndV2",
            num_loans       |-> num_loans(q),
            flash_loan_type |-> "Swap"])

\* mutant: the account of the target mint is ensured
EnsureTokenAccountIx_Target(in_mint, out_mint) ==
    create_associated_token_account_idempotent(
        owner, owner, token_by_mint(out_mint).mint, token_program)

\* the ensure-token-account instruction pushed before FlashLoanBegin
EnsureTokenAccountIx(in_mint, out_mint) ==
    create_associated_token_account_idempotent(
        owner, owner, token_by_mint(in_mint).mint, token_program)

\* mutant: FlashLoanBegin is pushed after the action block
Instructions_BeginAfterBlock(in_mint, out_mint, q, acc, ixs) ==
    Slice(ixs, 0, sanctum_action_ix_begin(ixs).v)
        \o <<EnsureTokenAccountIx(in_mint, out_mint)>>
        \o Slice(ixs, sanctum_action_ix_begin(ixs).v, sanctum_action_ix_end(ixs))
        \o <<FlashLoanBegin(in_mint, out_mint, q)>>
        \o <<FlashLoanEnd(in_mint, out_mint, q, acc)>>
        \o Slice(ixs, sanctum_action_ix_end(ixs), Len(ixs))

\* mutant: the setup instructions after the action block are not pushed
Instructions_DropsTrailingSetup(in_mint, out_mint, q, acc, ixs) ==
    Slice(ixs, 0, sanctum_action_ix_begin(ixs).v)
        \o <<EnsureTokenAccountIx(in_mint, out_mint)>>
        \o <<FlashLoanBegin(in_mint, out_mint, q)>>
        \o Slice(ixs, sanctum_action_ix_begin(ixs).v, sanctum_action_ix_end(ixs))
        \o <<FlashLoanEnd(in_mint, out_mint, q, acc)>>

\* the instructions of the bundle, for the stripped list ixs in which
\* sanctum_action_ix_begin found an action instruction
Instructions(in_mint, out_mint, q, acc, ixs) ==
    Slice(ixs, 0, sanctum_action_ix_begin(ixs).v)
        \o <<EnsureTokenAccountIx(in_mint, out_mint)>>
        \o <<FlashLoanBegin(in_mint, out_mint, q)>>
        \o Slice(ixs, sanctum_action_ix_begin(ixs).v, sanctum_action_ix_end(ixs))
        \o <<FlashLoanEnd(in_mint, out_mint, q, acc)>>
        \o Slice(ixs, sanctum_action_ix_end(ixs), Len(ixs))

\* mutant: the tables of the provider are left out
AddressLookupTables_OnlyMango(sanctum_alts) == mango_address_lookup_tables

\* address_lookup_tables of the bundle
AddressLookupTables(sanctum_alts) == mango_address_lookup_tables \o sanctum_alts

\* out_amount: the quoted amount less the slippage
out_amount(q, slippage_bps) ==
    SlippageAdjusted(ParseU64(q.out_amount).v, slippage_bps)

SwapRequest(in_mint, out_mint, slippage_bps, q) ==
    [call            |-> "POST /swap",
     amount          |-> q.in_amount.v,
     quoted_amount   |-> U64ToString(out_amount(q, slippage_bps)),
     input           |-> in_mint,
     mode            |-> <<"ExactIn">>,
     output_lst_mint |-> out_mint,
     signer          |-> owner,
     swap_src        |-> q.swap_src]

\* prepare_swap_transaction up to the request it posts: the request, or the
\* panic or error that ends it before anything is sent
BuildSwapRequest(in_mint, out_mint, slippage_bps, q) ==
    IF ~source_loan(q).some
    THEN Panic("called Result::unwrap() on an Err value")
    ELSE IF ~q.in_amount.some
    THEN Panic("sanctum require a in amount")
    ELSE IF ~ParseU64(q.out_amount).ok
    THEN Err("ParseIntError")
    ELSE Ok(SwapRequest(in_mint, out_mint, slippage_bps, q))

\* mutant: whatever the provider answered, an empty bundle is returned
ComposeBundle_AlwaysBundle(in_mint, out_mint, q, acc, answer) ==
    Ok([instructions          |-> <<>>,
        address_lookup_tables |-> AddressLookupTables(<<>>),
        payer                 |-> owner,
        signers               |-> <<owner>>,
        config                |-> transaction_builder_config])

\* prepare_swap_transaction from the provider's answer on
ComposeBundle(in_mint, out_mint, q, acc, answer) ==
    IF answer.kind = "send_error"
    THEN Err("swap transaction request to sanctum")
    ELSE IF answer.kind = "bad_response"
    THEN Err("error requesting sanctum swap")
    ELSE IF answer.kind = "bad_base64"
    THEN Err("base64 decoding sanctum transaction")
    ELSE IF answer.kind = "bad_bincode"
    THEN Err("parsing sanctum transaction")
    ELSE IF ~sanctum_action_ix_begin(sanctum_ixs(answer.ixs)).some
    THEN Err("sanctum swap response only had setup-like instructions")
    ELSE Ok([instructions          |-> Instructions(in_mint, out_mint, q, acc,
                                                    sanctum_ixs(answer.ixs)),
             address_lookup_tables |-> AddressLookupTables(answer.alts),
             payer                 |-> owner,
             signers               |-> <<owner>>,
             config                |-> transaction_builder_config])

\* ------------------------------------------------------------------------
\* the ledger: token_register, the Bank records and the positions
\* ------------------------------------------------------------------------

Tokens == {"token0", "token1"}

\* const INDEX_START: I80F48 = I80F48!(1_000_000)
INDEX_START == 1000000

\* Fixed-point amounts are counted in parts of one native token, and indexed
\* amounts in the same parts at an index of INDEX_START: an indexed amount i
\* stands for i / (NativeUnit * INDEX_START) index units.
NativeUnit == 10000

\* n * s = q * d + r with 0 <= r < d, for n >= 0, without a product that
\* leaves the machine integers
RECURSIVE MulDivRem(_, _, _)
MulDivRem(n, s, d) ==
    IF n = 0 THEN [q |-> 0, r |-> 0]
    ELSE LET h == MulDivRem(n \div 2, s, d)
             t == 2 * h.r + (n % 2) * s
         IN  [q |-> 2 * h.q + t \div d, r |-> t % d]

\* divisions round in the ledger's favour: down what the user is owed, up
\* what the user owes
MulDivDown(n, s, d) == MulDivRem(n, s, d).q

MulDivUp(n, s, d) ==
    LET m == MulDivRem(n, s, d) IN m.q + (IF m.r > 0 THEN 1 ELSE 0)

\* TokenPosition::native: the indexed balance at the index of its sign
native(indexed, b) ==
    IF indexed >= 0 THEN MulDivDown(indexed, b.deposit_index, INDEX_START)
    ELSE 0 - MulDivUp(0 - indexed, b.borrow_index, INDEX_START)

\* a native amount in index units, at the index of its sign
indexed_of(native_amount, b) ==
    IF native_amount >= 0
    THEN MulDivDown(native_amount, INDEX_START, b.deposit_index)
    ELSE 0 - MulDivUp(0 - native_amount, INDEX_START, b.borrow_index)

Positive(n) == IF n > 0 THEN n ELSE 0

\* the balance of one position moves by the native amount delta; the bank's
\* totals follow the part of the balance on either side of zero
apply_delta(bk, pos, token, delta) ==
    LET old == pos[token]
        new == indexed_of(native(old, bk[token]) + delta, bk[token])
    IN  [bank      |-> [bk EXCEPT
                            ![token].indexed_total_deposits =
                                @ + Positive(new) - Positive(old),
                            ![token].indexed_total_borrows =
                                @ + Positive(0 - new) - Positive(0 - old)],
         positions |-> [pos EXCEPT ![token] = new]]

\* the arguments of token_register the model tries: every pairing of the two
\* token indexes with the two mints, and a name of 17 bytes
NameOf17Bytes ==
    <<"a", "-", "n", "a", "m", "e", "-", "o", "f", "-", "1", "7", "-",
      "b", "y", "t", "e">>

TokenRegisterCalls ==
    {[token_index |-> i, name |-> <<"S", "O", "L">>, mint |-> m] :
         i \in 0..1, m \in {<<"mintA">>, <<"mintB">>}}
        \cup {[token_index |-> 0, name |-> NameOf17Bytes, mint |-> <<"mintA">>]}

\* loan_origination_fee_rate, in 1/10000
LoanOriginationFeeBps == 500

InterestRateParams ==
    [util0 |-> 4000, rate0 |-> 700, util1 |-> 8000, rate1 |-> 1000,
     max_rate |-> 20000]

\* util::fill16_from_str: the name as 16 bytes, zero-padded
fill16_from_str(name) ==
    IF Len(name) > 16 THEN Err("name too long")
    ELSE Ok(name \o [i \in 1..(16 - Len(name)) |-> "NUL"])

\* the addresses derived from the seeds of the accounts token_register
\* creates
BankPda(token_index) == <<"bank", TokenNames[token_index + 1]>>

VaultPda(token_index) == <<"vault", TokenNames[token_index + 1]>>

MintInfoPda(mint) == <<"mint_info", mint[1]>>

oracle == <<"oracle">>

\* mutant: the borrow index is left at zero and the token index is not stored
NewBank_Unset(token_index, name16, mint) ==
    [name                      |-> name16,
     group                     |-> group,
     mint                      |-> mint,
     vault                     |-> VaultPda(token_index),
     oracle                    |-> oracle,
     deposit_index             |-> INDEX_START,
     borrow_index              |-> 0,
     indexed_total_deposits    |-> 0,
     indexed_total_borrows     |-> 0,
     last_updated              |-> 0,
     util0                     |-> InterestRateParams.util0,
     rate0                     |-> InterestRateParams.rate0,
     util1                     |-> InterestRateParams.util1,
     rate1                     |-> InterestRateParams.rate1,
     max_rate                  |-> InterestRateParams.max_rate,
     collected_fees_native     |-> 0,
     loan_origination_fee_rate |-> LoanOriginationFeeBps,
     loan_fee_rate             |-> 50,
     maint_asset_weight        |-> 8000,
     init_asset_weight         |-> 6000,
     maint_liab_weight         |-> 12000,
     init_liab_weight          |-> 14000,
     liquidation_fee           |-> 200,
     dust                      |-> 0,
     token_index               |-> 0,
     mint_decimals             |-> 6]

\* *bank = Bank { ... }
NewBank(token_index, name16, mint) ==
    [name                      |-> name16,
     group                     |-> group,
     mint                      |-> mint,
     vault                     |-> VaultPda(token_index),
     oracle                    |-> oracle,
     deposit_index             |-> INDEX_START,
     borrow_index              |-> INDEX_START,
     indexed_total_deposits    |-> 0,
     indexed_total_borrows     |-> 0,
     last_updated              |-> 0,
     util0                     |-> InterestRateParams.util0,
     rate0                     |-> InterestRateParams.rate0,
     util1                     |-> InterestRateParams.util1,
     rate1                     |-> InterestRateParams.rate1,
     max_rate                  |-> InterestRateParams.max_rate,
     collected_fees_native     |-> 0,
     loan_origination_fee_rate |-> LoanOriginationFeeBps,
     loan_fee_rate             |-> 50,
     maint_asset_weight        |-> 8000,
     init_asset_weight         |-> 6000,
     maint_liab_weight         |-> 12000,
     init_liab_weight          |-> 14000,
     liquidation_fee           |-> 200,
     dust                      |-> 0,
     token_index               |-> token_index,
     mint_decimals             |-> 6]

\* *mint_info = MintInfo { ... }
NewMintInfo(token_index, mint) ==
    [group                             |-> group,
     mint                              |-> mint,
     bank                              |-> BankPda(token_index),
     vault                             |-> VaultPda(token_index),
     oracle                            |-> oracle,
     address_lookup_table              |-> <<"default">>,
     token_index                       |-> token_index,
     address_lookup_table_bank_index   |-> 0,
     address_lookup_table_oracle_index |-> 1]

\* a map with one more entry
Put(f, k, v) == [x \in DOMAIN f \cup {k} |-> IF x = k THEN v ELSE f[x]]

\* mutant: the accounts are created over whatever is at their addresses
token_register_Overwrites(bk, vlt, mi, token_index, name, mint) ==
    LET token == TokenNames[token_index + 1]
    IN  IF fill16_from_str(name).outcome # "ok"
        THEN [ok |-> FALSE, bank |-> bk, vault |-> vlt, mint_info |-> mi]
        ELSE [ok        |-> TRUE,
              bank      |-> Put(bk, token,
                                NewBank(token_index,
                                        fill16_from_str(name).value, mint)),
              vault     |-> Put(vlt, token, 0),
              mint_info |-> Put(mi, mint, NewMintInfo(token_index, mint))]

\* token_register: the accounts of the group after the call, and whether it
\* succeeded.  The three init constraints fail on an address in use.
token_register(bk, vlt, mi, token_index, name, mint) ==
    LET token == TokenNames[token_index + 1]
        unchanged == [ok |-> FALSE, bank |-> bk, vault |-> vlt, mint_info |-> mi]
    IN  IF token \in DOMAIN bk \/ token \in DOMAIN vlt \/ mint \in DOMAIN mi
        THEN unchanged
        ELSE IF fill16_from_str(name).outcome # "ok"
        THEN unchanged
        ELSE [ok        |-> TRUE,
              bank      |-> Put(bk, token,
                                NewBank(token_index,
                                        fill16_from_str(name).value, mint)),
              vault     |-> Put(vlt, token, 0),
              mint_info |-> Put(mi, mint, NewMintInfo(token_index, mint))]

\* the group of the client's context: mintA registered as token 0 and mintB
\* as token 1
EmptyMap == [x \in {} |-> 0]

RegisteredGroup ==
    LET first == token_register(EmptyMap, EmptyMap, EmptyMap,
                                0, <<"S", "O", "L">>, <<"mintA">>)
    IN  token_register(first.bank, first.vault, first.mint_info,
                       1, <<"L", "S", "T">>, <<"mintB">>)

\* ------------------------------------------------------------------------
\* Sanctum::swap, step by step
\* ------------------------------------------------------------------------

\* the ledger when no transaction is being executed
NoTransaction ==
    /\ tx = <<>>
    /\ tx_origin = "none"
    /\ ip = 0
    /\ txn = "NoLoan"
    /\ bank = RegisteredGroup.bank
    /\ mint_info = RegisteredGroup.mint_info
    /\ positions = [t \in Tokens |-> 0]
    /\ vault = RegisteredGroup.vault
    /\ holding = [t \in Tokens |-> 0]
    /\ loan = None
    /\ health_check = None
    /\ committed = None

\* max_slippage_bps and amount of the swaps requested (u64)
Slippages == {<<50>>, <<7000>>}

Amounts == {<<1000>>}

InitComposer ==
    /\ pc = "quote"
    /\ input_mint \in Mints
    /\ output_mint \in Mints
    /\ max_slippage_bps \in Slippages
    /\ amount \in Amounts
    /\ account \in Accounts
    /\ route = None
    /\ http = <<>>
    /\ swap_response = None
    /\ tx_builder = None
    /\ error = <<>>

\* let route = self.quote(input_mint, output_mint, amount).await?;
Quote ==
    /\ pc = "quote"
    /\ \E answer \in QuoteOutcomes :
       \E r \in {quote(input_mint, output_mint, amount, account, answer)} :
           /\ http' = http \o r.sent
           /\ route' = IF r.result.outcome = "ok"
                       THEN Some(r.result.value) ELSE route
           /\ error' = r.result.error
           /\ pc' = IF r.result.outcome = "ok" THEN "prepare" ELSE "failed"
    /\ UNCHANGED <<input_mint, output_mint, max_slippage_bps, amount, account,
                   swap_response, tx_builder>>
    /\ UNCHANGED envelopeVars

\* let tx_builder = self.prepare_swap_transaction(..., &route).await?;
PrepareSwapTransaction ==
    /\ pc = "prepare"
    /\ \E req \in {BuildSwapRequest(input_mint, output_mint, max_slippage_bps,
                                    route.v)} :
           IF req.outcome # "ok"
           THEN /\ pc' = IF req.outcome = "err" THEN "failed" ELSE "panicked"
                /\ error' = req.error
                /\ UNCHANGED <<http, swap_response, tx_builder>>
           ELSE \E answer \in SwapOutcomes :
                \E r \in {ComposeBundle(input_mint, output_mint, route.v,
                                        account, answer)} :
                    /\ http' = Append(http, req.value)
                    /\ swap_response' = Some(answer)
                    /\ tx_builder' = IF r.outcome = "ok"
                                     THEN Some(r.value) ELSE tx_builder
                    /\ error' = r.error
                    /\ pc' = IF r.outcome = "ok" THEN "send" ELSE "failed"
    /\ UNCHANGED <<input_mint, output_mint, max_slippage_bps, amount, account,
                   route>>
    /\ UNCHANGED envelopeVars

\* tx_builder.send_and_confirm(&self.mango_client.client).await
SendAndConfirm ==
    /\ pc = "send"
    /\ http' = Append(http, [call |-> "send_and_confirm"])
    /\ \E confirmed \in BOOLEAN :
           /\ pc' = IF confirmed THEN "done" ELSE "failed"
           /\ error' = IF confirmed THEN <<>> ELSE <<"send_and_confirm">>
    /\ UNCHANGED <<input_mint, output_mint, max_slippage_bps, amount, account,
                   route, swap_response, tx_builder>>
    /\ UNCHANGED envelopeVars

NextComposer == Quote \/ PrepareSwapTransaction \/ SendAndConfirm

vars == <<composerVars, envelopeVars>>

Init == InitComposer /\ NoTransaction

Next == NextComposer

Spec == Init /\ [][Next]_vars

\* ------------------------------------------------------------------------
\* the slippage computation on its own: prepare_swap_transaction up to the
\* request, over a wider range of quotes and slippages
\* ------------------------------------------------------------------------

\* largest of the consecutive estimated outputs tried
MaxEstimatedOutput == 30

\* 2^53 + 1, the first u64 that is no f64
FirstInexactU64 == BAdd(BShl(<<1>>, F64MantissaBits), <<1>>)

EstimatedOutputs ==
    {FromInt(n) : n \in 0..MaxEstimatedOutput}
        \cup {<<1000>>, FirstInexactU64, BAdd(FirstInexactU64, <<2>>), U64Max}

SlippageSamples ==
    {FromInt(k * 1000) : k \in 0..10}
        \cup {<<50>>, <<4400>>, <<9999>>, <<10001>>, <<20000>>}

InitSlippage ==
    /\ pc = "slippage"
    /\ input_mint = <<"mintA">>
    /\ output_mint = <<"mintB">>
    /\ max_slippage_bps \in SlippageSamples
    /\ amount = <<1000>>
    /\ account = [slots |-> 2, tokens |-> {}]
    /\ \E e \in EstimatedOutputs :
           route = Some([in_amount  |-> Some(<<"1", "0", "0">>),
                         out_amount |-> U64ToString(e),
                         fee_amount |-> <<"1">>,
                         fee_mint   |-> <<"mintB">>,
                         fee_pct    |-> <<"0", ".", "1">>,
                         swap_src   |-> <<"Stakedex">>])
    /\ http = <<>>
    /\ swap_response = None
    /\ tx_builder = None
    /\ error = <<>>
    /\ NoTransaction

\* lines 139-181 of prepare_swap_transaction: the request that is posted
PostSwapRequest ==
    /\ pc = "slippage"
    /\ \E req \in {BuildSwapRequest(input_mint, output_mint, max_slippage_bps,
                                    route.v)} :
           /\ req.outcome = "ok"
           /\ http' = Append(http, req.value)
    /\ pc' = "posted"
    /\ UNCHANGED <<input_mint, output_mint, max_slippage_bps, amount, account,
                   route, swap_response, tx_builder, error>>
    /\ UNCHANGED envelopeVars

NextSlippage == PostSwapRequest

SpecSlippage == InitSlippage /\ [][NextSlippage]_vars

\* ------------------------------------------------------------------------
\* the flash-loan envelope: one transaction executed by the ledger
\* ------------------------------------------------------------------------

\* the most the external action pays into the target holding account
MaxReceived == 2

\* the values the solvency evaluator may return
HealthValues == {-2, -1, 0, 1}

\* a u64 of one limb as an integer
ToInt(a) == IF a = <<>> THEN 0 ELSE a[1]

\* the quote, the provider answer and the account of the swap whose bundle
\* is executed
EnvelopeQuote ==
    [in_amount  |-> Some(<<"2">>),
     out_amount |-> <<"1", "0">>,
     fee_amount |-> <<"1">>,
     fee_mint   |-> <<"mintB">>,
     fee_pct    |-> <<"0", ".", "1">>,
     swap_src   |-> <<"Stakedex">>]

\* the quotes of the bundles executed: an input of 2 and one of 100 tokens
EnvelopeQuotes ==
    {EnvelopeQuote, [EnvelopeQuote EXCEPT !.in_amount = Some(<<"1", "0", "0">>)]}

\* the tokens of the source asset in the vault, all deposited, when the
\* transaction starts
EnvelopeFunds == {3, 100}

EnvelopeAnswer ==
    [kind |-> "ok",
     ixs  |-> <<Ix(compute_budget_program, <<>>, [tag |-> "SetComputeUnitLimit"]),
                Ix(sanctum_program, <<>>, [tag |-> "SwapViaStake"]),
                Ix(token_program, <<>>, [tag |-> "CloseAccount"])>>,
     alts |-> <<>>]

EnvelopeAccount == [slots |-> 2, tokens |-> {0}]

TokenDeposit(token, amt) ==
    Ix(mango_v4, <<>>, [tag |-> "TokenDeposit", token |-> token, amount |-> amt])

\* a transaction of another client: a deposit and the action inside the
\* bracket, closed by an End of another kind than Swap
OtherClientTx ==
    <<FlashLoanBegin(<<"mintA">>, <<"mintB">>, EnvelopeQuote),
      Ix(sanctum_program, <<>>, [tag |-> "SwapViaStake"]),
      TokenDeposit("token1", 1),
      [FlashLoanEnd(<<"mintA">>, <<"mintB">>, EnvelopeQuote, EnvelopeAccount)
           EXCEPT !.data.flash_loan_type = "Other"]>>

Snapshot ==
    [bank |-> bank, positions |-> positions, vault |-> vault,
     holding |-> holding, mint_info |-> mint_info, account |-> account]

InitEnvelope ==
    /\ pc = "done"
    /\ input_mint = <<"mintA">>
    /\ output_mint = <<"mintB">>
    /\ max_slippage_bps = <<50>>
    /\ amount = <<2>>
    /\ account = EnvelopeAccount
    /\ route \in {Some(q) : q \in EnvelopeQuotes}
    /\ swap_response = Some(EnvelopeAnswer)
    /\ tx_builder = Some(ComposeBundle(input_mint, output_mint, route.v,
                                       account, EnvelopeAnswer).value)
    /\ http = <<quote(input_mint, output_mint, amount, account,
                      [kind |-> "ok", quote |-> route.v]).sent[1],
                BuildSwapRequest(input_mint, output_mint, max_slippage_bps,
                                 route.v).value,
                [call |-> "send_and_confirm"]>>
    /\ error = <<>>
    /\ \/ tx = tx_builder.v.instructions /\ tx_origin = "composer"
       \/ tx = OtherClientTx /\ tx_origin = "other"
    /\ ip = 0
    /\ txn = "NoLoan"
    /\ mint_info = RegisteredGroup.mint_info
    /\ \E own \in 0..1, funds \in EnvelopeFunds :
           /\ positions = [t \in Tokens |->
                               IF t = "token0" THEN own * NativeUnit ELSE 0]
           /\ bank = [RegisteredGroup.bank EXCEPT
                          !["token0"].indexed_total_deposits =
                              funds * NativeUnit]
           /\ vault = [RegisteredGroup.vault EXCEPT !["token0"] = funds]
    /\ holding = [t \in Tokens |-> 0]
    /\ loan = None
    /\ health_check = None
    /\ committed = Some(Snapshot)

\* the instructions the ledger takes for Begin and End
IsBeginIx(ix) == ix.program_id = mango_v4 /\ ix.data.tag = "FlashLoanBegin"

IsEndIx(ix) == ix.program_id = mango_v4 /\ ix.data.tag = "FlashLoanEndV2"

\* the bracket guard: one Begin, one End after it, declaring as many loans
BracketOk(instrs, at) ==
    /\ Cardinality({i \in 1..Len(instrs) : IsBeginIx(instrs[i])}) = 1
    /\ Cardinality({i \in 1..Len(instrs) : IsEndIx(instrs[i])}) = 1
    /\ \E e \in (at + 1)..Len(instrs) :
           /\ IsEndIx(instrs[e])
           /\ instrs[e].data.num_loans = Len(instrs[at].data.loan_amounts)

\* the tokens of the banks Begin is given, one per loan
LoanTokens(begin_ix) ==
    [i \in 1..Len(begin_ix.data.loan_amounts) |-> begin_ix.accounts[4 + i].pubkey[2]]

\* mutant: the transfers are undone, the positions and totals are kept
Rollback_KeepsPositions ==
    /\ txn' = "Rejected"
    /\ vault' = committed.v.vault
    /\ holding' = committed.v.holding
    /\ loan' = None
    /\ UNCHANGED <<tx, tx_origin, ip, committed, bank, positions>>

\* the whole transaction is undone
Rollback ==
    /\ txn' = "Rejected"
    /\ bank' = committed.v.bank
    /\ positions' = committed.v.positions
    /\ vault' = committed.v.vault
    /\ holding' = committed.v.holding
    /\ loan' = None
    /\ UNCHANGED <<tx, tx_origin, ip, committed>>

Running == txn \in {"NoLoan", "LoanOpen", "Settled"} /\ ip < Len(tx)

\* Begin(loan_amounts): the loans leave the vaults for the holding accounts
ExecFlashLoanBegin ==
    /\ Running
    /\ IsBeginIx(tx[ip + 1])
    /\ LET ix      == tx[ip + 1]
           tokens  == LoanTokens(ix)
           amounts == [i \in 1..Len(tokens) |-> ToInt(ix.data.loan_amounts[i])]
           Lent(t) == IF \E i \in 1..Len(tokens) : tokens[i] = t
                      THEN amounts[CHOOSE i \in 1..Len(tokens) : tokens[i] = t]
                      ELSE 0
       IN  IF txn # "NoLoan" \/ ~BracketOk(tx, ip + 1)
              \/ \E t \in Tokens : vault[t] < Lent(t)
           THEN Rollback /\ UNCHANGED health_check
           ELSE /\ \E pre_health \in HealthValues :
                       loan' = Some([tokens       |-> tokens,
                                     amounts      |-> amounts,
                                     pre_balances |-> holding,
                                     pre_health   |-> pre_health])
                /\ vault' = [t \in Tokens |-> vault[t] - Lent(t)]
                /\ holding' = [t \in Tokens |-> holding[t] + Lent(t)]
                /\ txn' = "LoanOpen"
                /\ ip' = ip + 1
                /\ UNCHANGED <<tx, tx_origin, bank, positions, health_check,
                               committed>>
    /\ UNCHANGED <<composerVars, mint_info>>


\* the external action: the venue takes tokens of the source holding
\* account and pays tokens into the target holding account
ExecAction ==
    /\ Running
    /\ tx[ip + 1].program_id = sanctum_program
    /\ \E spent \in 0..holding["token0"], received \in 0..MaxReceived :
           holding' = [holding EXCEPT !["token0"] = @ - spent,
                                      !["token1"] = @ + received]
    /\ ip' = ip + 1
    /\ UNCHANGED <<tx, tx_origin, txn, bank, positions, vault, loan,
                   health_check, committed>>
    /\ UNCHANGED <<composerVars, mint_info>>

\* a deposit into the account, here one that runs inside the bracket
ExecTokenDeposit ==
    /\ Running
    /\ tx[ip + 1].program_id = mango_v4
    /\ tx[ip + 1].data.tag = "TokenDeposit"
    /\ LET token == tx[ip + 1].data.token
           amt   == tx[ip + 1].data.amount
           after == apply_delta(bank, positions, token, amt * NativeUnit)
       IN  IF holding[token] < amt
           THEN Rollback /\ UNCHANGED health_check
           ELSE /\ holding' = [holding EXCEPT ![token] = @ - amt]
                /\ vault' = [vault EXCEPT ![token] = @ + amt]
                /\ bank' = after.bank
                /\ positions' = after.positions
                /\ ip' = ip + 1
                /\ UNCHANGED <<tx, tx_origin, txn, loan, health_check, committed>>
    /\ UNCHANGED <<composerVars, mint_info>>

\* an instruction of a setup program: nothing of the ledger changes
ExecSetup ==
    /\ Running
    /\ is_setup_ix(tx[ip + 1].program_id)
    /\ ip' = ip + 1
    /\ UNCHANGED <<tx, tx_origin, txn, bank, positions, vault, holding, loan,
                   health_check, committed>>
    /\ UNCHANGED <<composerVars, mint_info>>

\* the part of a withdrawal that the deposit of a position of native
\* balance `balance` does not cover: what the withdrawal borrows
Borrowed(balance, withdrawn) == Positive(withdrawn - Positive(balance))

\* mutant: no origination fee is charged
loan_origination_fee_None(b, borrowed) == 0

\* loan_origination_fee_rate of what is borrowed
loan_origination_fee(b, borrowed) ==
    MulDivUp(borrowed, b.loan_origination_fee_rate, BpsDenominator)

\* mutant: the fee is charged on the whole loan, returned or not
SettleFee_OnWholeLoan(b, indexed, lent, returned) ==
    loan_origination_fee(b, lent * NativeUnit)

\* the fee of settling a loan of `lent` tokens of which `returned` came back,
\* on a position of indexed balance `indexed`
SettleFee(b, indexed, lent, returned) ==
    IF returned < lent
    THEN loan_origination_fee(b, Borrowed(native(indexed, b),
                                          (lent - returned) * NativeUnit))
    ELSE 0

\* the native change of the position: the surplus, or the shortfall and the
\* fee on the part of it that is borrowed
SettleDelta(b, indexed, lent, returned) ==
    (returned - lent) * NativeUnit - SettleFee(b, indexed, lent, returned)

\* the bank and the positions once the loan of one token is settled
Settle(bk, pos, token, lent, returned) ==
    LET after == apply_delta(bk, pos, token,
                             SettleDelta(bk[token], pos[token], lent, returned))
    IN  [bank      |-> [after.bank EXCEPT
                            ![token].collected_fees_native =
                                @ + SettleFee(bk[token], pos[token], lent,
                                              returned)],
         positions |-> after.positions]

\* the solvency rule of End
HealthAccepted(kind, pre_health, health) ==
    health >= 0 \/ (kind = "Swap" /\ health >= pre_health)

\* End(num_loans, kind): what came back returns to the vaults, shortfall and
\* surplus go to the positions, and the health decides
ExecFlashLoanEnd ==
    /\ Running
    /\ IsEndIx(tx[ip + 1])
    /\ \E health \in HealthValues :
       LET kind        == tx[ip + 1].data.flash_loan_type
           IsLoan(t)   == \E i \in 1..Len(loan.v.tokens) : loan.v.tokens[i] = t
           Lent(t)     == IF IsLoan(t)
                          THEN loan.v.amounts[CHOOSE i \in 1..Len(loan.v.tokens) :
                                                  loan.v.tokens[i] = t]
                          ELSE 0
           Returned(t) == IF IsLoan(t)
                          THEN Positive(holding[t] - loan.v.pre_balances[t])
                          ELSE 0
           After(t)    == Settle(bank, positions, t, Lent(t), Returned(t))
       IN  IF txn # "LoanOpen"
           THEN Rollback /\ UNCHANGED health_check
           ELSE /\ health_check' = Some([kind       |-> kind,
                                         pre_health |-> loan.v.pre_health,
                                         health     |-> health])
                /\ IF HealthAccepted(kind, loan.v.pre_health, health)
                   THEN /\ txn' = "Settled"
                        /\ vault' = [t \in Tokens |-> vault[t] + Returned(t)]
                        /\ holding' = [t \in Tokens |-> holding[t] - Returned(t)]
                        /\ bank' = [t \in Tokens |-> After(t).bank[t]]
                        /\ positions' = [t \in Tokens |-> After(t).positions[t]]
                        /\ loan' = None
                        /\ ip' = ip + 1
                        /\ UNCHANGED <<tx, tx_origin, committed>>
                   ELSE Rollback
    /\ UNCHANGED <<composerVars, mint_info>>

NextEnvelope ==
    \/ ExecFlashLoanBegin
    \/ ExecAction
    \/ ExecTokenDeposit
    \/ ExecSetup
    \/ ExecFlashLoanEnd

SpecEnvelope == InitEnvelope /\ [][NextEnvelope]_vars

\* ------------------------------------------------------------------------
\* the ledger over whole transactions: token_register, deposits and margin
\* trades, each executed atomically
\* ------------------------------------------------------------------------

\* the transactions after which a run of the ledger stops
MaxTransactions == 3

\* the most tokens one deposit or one leg of a margin trade moves
MaxTransfer == 2

InitLedger ==
    /\ pc = "ledger"
    /\ input_mint = <<"mintA">>
    /\ output_mint = <<"mintB">>
    /\ max_slippage_bps = <<50>>
    /\ amount = <<2>>
    /\ account \in {[slots |-> 1, tokens |-> {}], [slots |-> 2, tokens |-> {}]}
    /\ route = None
    /\ http = <<>>
    /\ swap_response = None
    /\ tx_builder = None
    /\ error = <<>>
    /\ tx = <<>>
    /\ tx_origin = "ledger"
    /\ ip = 0
    /\ txn = "NoLoan"
    /\ bank = EmptyMap
    /\ mint_info = EmptyMap
    /\ vault = EmptyMap
    /\ positions = [t \in Tokens |-> 0]
    /\ holding = [t \in Tokens |-> 0]
    /\ loan = None
    /\ health_check = None
    /\ committed = None

\* what no transaction of the ledger touches
LedgerFrame ==
    UNCHANGED <<pc, input_mint, output_mint, max_slippage_bps, amount, route,
                http, swap_response, tx_builder, error, tx_origin, loan,
                health_check>>

\* a transaction that fails: nothing but the record of it changes
LedgerRejected ==
    /\ txn' = "Rejected"
    /\ UNCHANGED <<bank, mint_info, vault, positions, holding, account>>

\* the admin registers a token
TokenRegister ==
    /\ pc = "ledger"
    /\ ip < MaxTransactions
    /\ \E call \in TokenRegisterCalls :
       \E r \in {token_register(bank, vault, mint_info, call.token_index,
                                call.name, call.mint)} :
           /\ tx' = <<Ix(mango_v4, <<>>, [tag         |-> "TokenRegister",
                                          token_index |-> call.token_index,
                                          name        |-> call.name,
                                          mint        |-> call.mint])>>
           /\ IF r.ok
              THEN /\ txn' = "Settled"
                   /\ bank' = r.bank
                   /\ vault' = r.vault
                   /\ mint_info' = r.mint_info
                   /\ UNCHANGED <<positions, holding, account>>
              ELSE LedgerRejected
    /\ committed' = Some(Snapshot)
    /\ UNCHANGED ip
    /\ LedgerFrame

\* mutant: a position is never given a slot
SetActive_OnlyFrees(acc, token_index, indexed) ==
    [acc EXCEPT !.tokens = @ \ {token_index}]

\* the slot of a position after its balance changed: kept while the balance
\* is not zero, freed when it is
SetActive(acc, token_index, indexed) ==
    IF indexed = 0 THEN [acc EXCEPT !.tokens = @ \ {token_index}]
    ELSE [acc EXCEPT !.tokens = @ \cup {token_index}]

\* a deposit of `amt` tokens into the vault, for the account or for some
\* other account of the group
TokenDepositTx ==
    /\ pc = "ledger"
    /\ ip < MaxTransactions
    /\ \E token \in DOMAIN bank, amt \in 1..MaxTransfer,
          by \in {"account", "other"} :
       \E after \in {apply_delta(bank, positions, token, amt * NativeUnit)} :
       LET token_index == bank[token].token_index
           ensured     == ensure_token_position(account, token_index)
       IN  /\ by = "other" => amt = MaxTransfer
           /\ tx' = <<Ix(mango_v4, <<>>, [tag    |-> "TokenDeposit",
                                          token  |-> token,
                                          amount |-> amt,
                                          by     |-> by])>>
           /\ IF by = "account" /\ ~ensured.ok
              THEN LedgerRejected
              ELSE /\ txn' = "Settled"
                   /\ vault' = [vault EXCEPT ![token] = @ + amt]
                   /\ bank' = after.bank
                   /\ positions' = IF by = "account" THEN after.positions
                                   ELSE positions
                   /\ account' = IF by = "account"
                                 THEN SetActive(ensured.account, token_index,
                                                after.positions[token])
                                 ELSE account
                   /\ UNCHANGED <<mint_info, holding>>
    /\ committed' = Some(Snapshot)
    /\ ip' = ip + 1
    /\ LedgerFrame

\* mutant: the position keeps its slot at a balance of zero
MarginTradeAccount_KeepsSlot(acc, token_index, indexed) ==
    [acc EXCEPT !.tokens = @ \cup {token_index}]

\* the account after a margin trade settled its position
MarginTradeAccount(acc, token_index, indexed) ==
    SetActive(acc, token_index, indexed)

\* mutant: what is returned is not put back into the vault
MarginTradeVault_NothingBack(balance, amount_from, amount_to) ==
    balance - amount_from

\* the vault after a margin trade
MarginTradeVault(balance, amount_from, amount_to) ==
    balance - amount_from + amount_to

\* a margin trade: amount_from tokens leave the vault for the trade account,
\* amount_to tokens come back, the difference goes to the position, and the
\* health decides
MarginTrade ==
    /\ pc = "ledger"
    /\ ip < MaxTransactions
    /\ \E token \in DOMAIN bank, amount_from \in 0..MaxTransfer,
          amount_to \in 0..MaxTransfer,
          accepted \in {HealthAccepted("Other", 0, h) : h \in HealthValues} :
           /\ amount_from <= vault[token]
           /\ amount_to <= holding[token] + amount_from
           /\ tx' = <<Ix(mango_v4, <<>>, [tag         |-> "MarginTrade",
                                          token       |-> token,
                                          amount_from |-> amount_from,
                                          amount_to   |-> amount_to])>>
           /\ \E after \in {Settle(bank, positions, token, amount_from,
                                    amount_to)},
                 ensured \in {ensure_token_position(
                                  account, bank[token].token_index)} :
                  IF ~ensured.ok \/ ~accepted
                  THEN LedgerRejected
                  ELSE /\ txn' = "Settled"
                       /\ vault' = [vault EXCEPT ![token] =
                                        MarginTradeVault(@, amount_from,
                                                         amount_to)]
                       /\ holding' = [holding EXCEPT ![token] =
                                          @ + amount_from - amount_to]
                       /\ bank' = after.bank
                       /\ positions' = after.positions
                       /\ account' = MarginTradeAccount(
                                         ensured.account,
                                         bank[token].token_index,
                                         after.positions[token])
                       /\ UNCHANGED mint_info
    /\ committed' = Some(Snapshot)
    /\ ip' = ip + 1
    /\ LedgerFrame

NextLedger == TokenRegister \/ TokenDepositTx \/ MarginTrade

SpecLedger == InitLedger /\ [][NextLedger]_vars

\* ------------------------------------------------------------------------
\* MintInfo::verify_banks_ais on its own: the accounts an instruction passes
\* for the banks of a mint, checked against the MintInfo of the mint
\* ------------------------------------------------------------------------

\* pub const MAX_BANKS: usize = 6;
MAX_BANKS == 6

\* Pubkey::default()
Pubkey_default == <<"default">>

\* the keys of the banks a MintInfo stores, and of an account that is none
\* of them
BankKeys == {<<"bank0">>, <<"bank1">>}

ForeignKey == <<"other_bank">>

\* the longest list of accounts tried exhaustively
MaxAis == 2

\* the banks field of the MintInfo accounts tried: [Pubkey; MAX_BANKS]
BankArrays == [1..MAX_BANKS -> BankKeys \cup {Pubkey_default}]

\* the AccountInfos of a list of keys
AccountInfos(keys) == [i \in 1..Len(keys) |-> [key |-> keys[i]]]

\* the lists of accounts passed for a MintInfo: every list of at most MaxAis
\* keys, every prefix of the stored array, each prefix with a foreign account
\* after it or with its first two accounts exchanged, and the stored banks
\* without the empty slots
BankAisTried(mi) ==
    LET IsSet(k) == k # Pubkey_default
        prefixes == {SubSeq(mi.banks, 1, k) : k \in 0..MAX_BANKS}
        keys == UNION {[1..k -> BankKeys \cup {Pubkey_default, ForeignKey}] :
                           k \in 0..MaxAis}
                \cup prefixes
                \cup {Append(p, ForeignKey) : p \in prefixes}
                \cup {[p EXCEPT ![1] = p[2], ![2] = p[1]] :
                          p \in {q \in prefixes : Len(q) >= 2}}
                \cup {SelectSeq(mi.banks, IsSet)}
    IN  {AccountInfos(k) : k \in keys}

\* MintInfo::num_banks: the position of the first empty slot, counted from
\* zero, or MAX_BANKS
num_banks(mi) ==
    IF \E i \in 1..MAX_BANKS : mi.banks[i] = Pubkey_default
    THEN (CHOOSE i \in 1..MAX_BANKS :
              /\ mi.banks[i] = Pubkey_default
              /\ \A j \in 1..(i - 1) : mi.banks[j] # Pubkey_default) - 1
    ELSE MAX_BANKS

\* mutant: the stored banks with the empty slots skipped
banks_SkipsEmpty(mi) ==
    LET IsSet(k) == k # Pubkey_default
    IN  SelectSeq(mi.banks, IsSet)

\* MintInfo::banks: &self.banks[..self.num_banks()]
banks(mi) == SubSeq(mi.banks, 1, num_banks(mi))

\* Iterator::eq of two lists
IterEq(a, b) == Len(a) = Len(b) /\ \A i \in 1..Len(a) : a[i] = b[i]

\* MintInfo::verify_banks_ais
verify_banks_ais(mi, all_bank_ais) ==
    IF IterEq([i \in 1..Len(all_bank_ais) |-> all_bank_ais[i].key], banks(mi))
    THEN Ok(<<>>)
    ELSE Err("SomeError")

\* a MintInfo with the banks array `stored`
MintInfoWithBanks(stored) ==
    [group                             |-> group,
     mint                              |-> <<"mintA">>,
     banks                             |-> stored,
     vaults                            |-> [i \in 1..MAX_BANKS |->
                                                Pubkey_default],
     oracle                            |-> oracle,
     address_lookup_table              |-> Pubkey_default,
     token_index                       |-> 0,
     address_lookup_table_bank_index   |-> 0,
     address_lookup_table_oracle_index |-> 1]

InitBanks ==
    /\ pc = "banks"
    /\ input_mint = <<"mintA">>
    /\ output_mint = <<"mintB">>
    /\ max_slippage_bps = <<50>>
    /\ amount = <<2>>
    /\ account = [slots |-> 2, tokens |-> {}]
    /\ route = None
    /\ http = <<>>
    /\ swap_response = None
    /\ tx_builder = None
    /\ error = <<>>
    /\ tx = <<>>
    /\ tx_origin = "banks"
    /\ ip = 0
    /\ txn = "NoLoan"
    /\ bank = RegisteredGroup.bank
    /\ \E stored \in BankArrays :
           mint_info = [m \in {<<"mintA">>} |-> MintInfoWithBanks(stored)]
    /\ vault = RegisteredGroup.vault
    /\ positions = [t \in Tokens |-> 0]
    /\ holding = [t \in Tokens |-> 0]
    /\ loan = None
    /\ health_check = None
    /\ committed = None

\* an instruction that passes all_bank_ais for mintA and verifies them
VerifyBanksAis ==
    /\ pc = "banks"
    /\ tx = <<>>
    /\ \E all_bank_ais \in BankAisTried(mint_info[<<"mintA">>]) :
           /\ tx' = <<Ix(mango_v4, all_bank_ais, [tag |-> "VerifyBanks"])>>
           /\ txn' = IF verify_banks_ais(mint_info[<<"mintA">>],
                                         all_bank_ais).outcome = "ok"
                     THEN "Settled"
                     ELSE "Rejected"
    /\ UNCHANGED <<composerVars, tx_origin, ip, bank, positions, mint_info,
                   vault, holding, loan, health_check, committed>>

NextBanks == VerifyBanksAis

SpecBanks == InitBanks /\ [][NextBanks]_vars

\* ========================================================================
\* properties
\* ========================================================================

\* the instructions of the bundle prepare_swap_transaction returned
BundleIxs == tx_builder.v.instructions

IsEnsureIx(ix) == ix.program_id = ata_program /\ ix.data.tag = "CreateIdempotent"

\* the allow-list of setup programs, spelled out
SetupPrograms == {ata_program, token_program, compute_budget_program}

\* an instruction that wraps the native asset: any system-program
\* instruction, and the token program's SyncNative
IsWrappingIx(ix) ==
    \/ ix.program_id = system_program
    \/ ix.program_id = token_program /\ ix.data.tag = "SyncNative"

BeginIndexes == {i \in 1..Len(BundleIxs) : IsBeginIx(BundleIxs[i])}

EndIndexes == {i \in 1..Len(BundleIxs) : IsEndIx(BundleIxs[i])}

BeginAt == CHOOSE i \in BeginIndexes : TRUE

EndAt == CHOOSE i \in EndIndexes : TRUE

\* C1: every bundle holds exactly one FlashLoanBegin and one FlashLoanEnd,
\* Begin before End; every instruction of a program outside the setup
\* allow-list lies strictly between them; the order is leading setup
\* instructions, the ensure-token-account instruction, Begin, the action
\* block, End, trailing setup instructions.
C1_BundleOrder ==
    tx_builder.some =>
        /\ Cardinality(BeginIndexes) = 1
        /\ Cardinality(EndIndexes) = 1
        /\ BeginAt < EndAt
        /\ BeginAt >= 2
        /\ IsEnsureIx(BundleIxs[BeginAt - 1])
        /\ \A i \in 1..Len(BundleIxs) :
               /\ i < BeginAt - 1 => BundleIxs[i].program_id \in SetupPrograms
               /\ i > EndAt => BundleIxs[i].program_id \in SetupPrograms
               /\ (BundleIxs[i].program_id \notin SetupPrograms \cup {mango_v4})
                      => (BeginAt < i /\ i < EndAt)

\* a bundle with setup instructions before and after the bracket
C1_Witness ==
    /\ tx_builder.some
    /\ BeginAt > 2
    /\ EndAt < Len(BundleIxs)
    /\ EndAt > BeginAt + 1

\* C2: a swap whose input mint equals its output mint fails before anything
\* is sent: no quote request, no build-action request, no submission, and
\* the error is returned.
C2_SameMintRejected ==
    (input_mint = output_mint /\ pc # "quote") =>
        /\ pc = "failed"
        /\ http = <<>>
        /\ error = <<"Need two distinct mint to swap">>
        /\ route = None
        /\ tx_builder = None

C2_Witness == input_mint = output_mint /\ pc = "failed"

\* C3: when every instruction the provider returned is a wrapping
\* instruction or belongs to a setup program (none is left that is an
\* action), composition fails with the "only had setup-like instructions"
\* error and returns no bundle.
C3_NoActionFails ==
    (/\ swap_response.some
     /\ swap_response.v.kind = "ok"
     /\ \A i \in 1..Len(swap_response.v.ixs) :
            \/ IsWrappingIx(swap_response.v.ixs[i])
            \/ swap_response.v.ixs[i].program_id \in SetupPrograms)
        => /\ pc = "failed"
           /\ tx_builder = None
           /\ error = <<"sanctum swap response only had setup-like instructions">>

\* a non-empty answer of setup instructions only
C3_Witness ==
    /\ swap_response.some
    /\ swap_response.v.kind = "ok"
    /\ Len(swap_response.v.ixs) >= 2
    /\ \A i \in 1..Len(swap_response.v.ixs) :
           swap_response.v.ixs[i].program_id \in SetupPrograms
    /\ \E i \in 1..Len(swap_response.v.ixs) : ~IsWrappingIx(swap_response.v.ixs[i])
    /\ pc = "failed"

NotWrappingIx(ix) == ~IsWrappingIx(ix)

\* the provider's list without its wrapping instructions
Stripped == SelectSeq(swap_response.v.ixs, NotWrappingIx)

IsProviderAction(ix) == ix.program_id \notin SetupPrograms

ActionIndexes == {i \in 1..Len(Stripped) : IsProviderAction(Stripped[i])}

FirstAction == CHOOSE i \in ActionIndexes : \A j \in ActionIndexes : i <= j

LastAction == CHOOSE i \in ActionIndexes : \A j \in ActionIndexes : i >= j

BundlePrefix == SubSeq(BundleIxs, 1, BeginAt - 2)

BundleBlock == SubSeq(BundleIxs, BeginAt + 1, EndAt - 1)

BundleSuffix == SubSeq(BundleIxs, EndAt + 1, Len(BundleIxs))

\* C4: with first and last the first and last action of the stripped list,
\* the prefix is the instructions before first, the action block is
\* first..last, the suffix is the instructions after last; prefix and suffix
\* hold setup instructions only, the three parts make up the stripped list,
\* and a setup instruction between two actions stays in the block.
C4_Partition ==
    tx_builder.some =>
        /\ BundlePrefix = SubSeq(Stripped, 1, FirstAction - 1)
        /\ BundleBlock = SubSeq(Stripped, FirstAction, LastAction)
        /\ BundleSuffix = SubSeq(Stripped, LastAction + 1, Len(Stripped))
        /\ BundlePrefix \o BundleBlock \o BundleSuffix = Stripped
        /\ \A i \in 1..Len(BundlePrefix) :
               BundlePrefix[i].program_id \in SetupPrograms
        /\ \A i \in 1..Len(BundleSuffix) :
               BundleSuffix[i].program_id \in SetupPrograms
        /\ \A i \in 1..Len(Stripped) :
               (/\ Stripped[i].program_id \in SetupPrograms
                /\ \E j \in 1..(i - 1) : IsProviderAction(Stripped[j])
                /\ \E k \in (i + 1)..Len(Stripped) : IsProviderAction(Stripped[k]))
                   => \E b \in 1..Len(BundleBlock) :
                          /\ BundleBlock[b] = Stripped[i]
                          /\ b = i - FirstAction + 1

\* a bundle whose action block holds a setup instruction between two actions
C4_Witness ==
    /\ tx_builder.some
    /\ Len(BundleBlock) >= 3
    /\ \E b \in 2..(Len(BundleBlock) - 1) :
           BundleBlock[b].program_id \in SetupPrograms

RECURSIVE DecimalValue(_)
\* the number a string of decimal digits, with an optional "+", stands for
DecimalValue(s) ==
    IF s = <<>> THEN <<>>
    ELSE IF s[Len(s)] = "+" THEN <<>>
    ELSE BAdd(BMulSmall(DecimalValue(SubSeq(s, 1, Len(s) - 1)), 10),
              FromInt(DigitVal(s[Len(s)])))

\* C5: in every bundle Begin carries loan_amounts = [input_amount, 0], with
\* input_amount the in_amount of the quote, and End carries kind = Swap and
\* num_loans = 2, the number of entries of Begin's loan_amounts.
C5_LoanAmounts ==
    tx_builder.some =>
        /\ BundleIxs[BeginAt].data.loan_amounts
               = <<DecimalValue(route.v.in_amount.v), <<>>>>
        /\ BundleIxs[EndAt].data.flash_loan_type = "Swap"
        /\ BundleIxs[EndAt].data.num_loans = 2
        /\ BundleIxs[EndAt].data.num_loans
               = Len(BundleIxs[BeginAt].data.loan_amounts)

\* a bundle for a quote that asks for an input of 100
C5_Witness ==
    /\ tx_builder.some
    /\ route.v.in_amount = Some(<<"1", "0", "0">>)
    /\ BundleIxs[BeginAt].data.loan_amounts[1] = <<100>>

\* the estimated_output the quote reports in out_amount
EstimatedOutput ==
    CHOOSE e \in EstimatedOutputs : U64ToString(e) = route.v.out_amount

\* ceil(estimated_output * (10000 - slippage_bps) / 10000), exactly
ExactMinOutput(estimated_output, slippage_bps) ==
    LET n == BMul(estimated_output, BSub(<<10000>>, slippage_bps))
    IN  IF BModSmall(n, 10000) = 0 THEN BDivSmall(n, 10000)
        ELSE BAdd(BDivSmall(n, 10000), <<1>>)

\* C6: the quoted_amount posted to the provider is
\* ceil(estimated_output * (1 - slippage_bps / 10000)), for every
\* estimated_output and every slippage_bps in 0..10000.
C6_MinOutputIsCeil ==
    (pc = "posted" /\ BCmp(max_slippage_bps, <<10000>>) <= 0) =>
        http[1].quoted_amount
            = U64ToString(ExactMinOutput(EstimatedOutput, max_slippage_bps))

\* C7: no wrapping instruction (system program, or the token program's
\* SyncNative) is anywhere in a bundle.
C7_NoWrappingInBundle ==
    tx_builder.some =>
        \A i \in 1..Len(BundleIxs) : ~IsWrappingIx(BundleIxs[i])

\* a bundle composed from an answer that held both kinds of wrapping
\* instruction
C7_Witness ==
    /\ tx_builder.some
    /\ \E i \in 1..Len(swap_response.v.ixs) :
           swap_response.v.ixs[i].program_id = system_program
    /\ \E i \in 1..Len(swap_response.v.ixs) :
           /\ swap_response.v.ixs[i].program_id = token_program
           /\ swap_response.v.ixs[i].data.tag = "SyncNative"

\* the token account the instruction before Begin creates if it is missing
EnsuredTokenAccount == BundleIxs[BeginAt - 1].accounts[2].pubkey

\* C8 as stated: the instruction right before Begin idempotently creates
\* the owner's token account of the output mint.
C8_EnsuresOutputAccount ==
    tx_builder.some =>
        /\ IsEnsureIx(BundleIxs[BeginAt - 1])
        /\ EnsuredTokenAccount = <<"ata", owner[1], output_mint[1]>>

\* C8, amended: the instruction right before Begin idempotently creates the
\* owner's token account of the input (source) mint.
C8_EnsuresSourceAccount ==
    tx_builder.some =>
        /\ IsEnsureIx(BundleIxs[BeginAt - 1])
        /\ EnsuredTokenAccount = <<"ata", owner[1], input_mint[1]>>
        /\ BundleIxs[BeginAt - 1].accounts[4].pubkey = input_mint

C8_Witness ==
    /\ tx_builder.some
    /\ input_mint = <<"mintB">>
    /\ EnsuredTokenAccount = <<"ata", "owner", "mintB">>

\* End's check found a negative health to which the Swap leniency does not
\* apply
NegativeWithoutLeniency ==
    /\ health_check.some
    /\ health_check.v.health < 0
    /\ ~(health_check.v.kind = "Swap"
           /\ health_check.v.health >= health_check.v.pre_health)

\* C9: when the health at End is negative and the Swap leniency does not
\* apply, the transaction is rejected and bank totals, positions, vaults and
\* holding accounts are what they were before it: nothing Begin, End or an
\* instruction between them did survives.
C9_RejectedLeavesNothing ==
    NegativeWithoutLeniency =>
        /\ txn = "Rejected"
        /\ bank = committed.v.bank
        /\ positions = committed.v.positions
        /\ vault = committed.v.vault
        /\ holding = committed.v.holding
        /\ loan = None

\* a rejected transaction in which a deposit ran between Begin and End
C9_Witness ==
    /\ NegativeWithoutLeniency
    /\ tx_origin = "other"
    /\ ip = 3
    /\ txn = "Rejected"

\* C10: at End with kind = Swap a negative health is accepted exactly when
\* it is not below the health before Begin; with any other kind a negative
\* health is rejected; the End of a composed bundle is of kind Swap.
C10_SwapLeniency ==
    /\ (health_check.some /\ health_check.v.health < 0) =>
           /\ txn \in {"Settled", "Rejected"}
           /\ health_check.v.kind = "Swap" =>
                  (txn = "Settled"
                       <=> health_check.v.health >= health_check.v.pre_health)
           /\ health_check.v.kind # "Swap" => txn = "Rejected"
    /\ tx_origin = "composer" =>
           /\ tx = tx_builder.v.instructions
           /\ \A i \in 1..Len(tx) :
                  IsEndIx(tx[i]) => tx[i].data.flash_loan_type = "Swap"

\* a composed bundle settled at a negative health that is no worse than the
\* health before Begin
C10_Witness ==
    /\ tx_origin = "composer"
    /\ txn = "Settled"
    /\ health_check.some
    /\ health_check.v.kind = "Swap"
    /\ health_check.v.health = -1
    /\ health_check.v.pre_health = -2

\* the last transaction of the ledger was a margin trade
LastMarginTrade ==
    tx_origin = "ledger" /\ tx # <<>> /\ tx[1].data.tag = "MarginTrade"

TradedToken == tx[1].data.token

AmountFrom == tx[1].data.amount_from

AmountTo == tx[1].data.amount_to

TradedIndex == bank[TradedToken].token_index

\* the native balance of the account in the traded token before the trade
BalanceBefore ==
    native(committed.v.positions[TradedToken], committed.v.bank[TradedToken])

\* C11: a position whose balance is zero holds no slot of the account; after
\* a settled margin trade that withdraws the whole balance of the account in
\* a token and returns nothing, the position of that token is inactive, and
\* the account has no active position when it had no other.
C11_ZeroBalanceDeactivates ==
    /\ \A t \in DOMAIN bank :
           positions[t] = 0 => bank[t].token_index \notin account.tokens
    /\ (/\ LastMarginTrade
        /\ txn = "Settled"
        /\ AmountFrom > 0
        /\ AmountFrom * NativeUnit = BalanceBefore
        /\ AmountTo = 0)
           => /\ positions[TradedToken] = 0
              /\ TradedIndex \notin account.tokens
              /\ committed.v.account.tokens = {TradedIndex}
                     => account.tokens = {}

\* the account's only position was withdrawn whole by a margin trade
C11_Witness ==
    /\ LastMarginTrade
    /\ txn = "Settled"
    /\ AmountFrom = MaxTransfer
    /\ AmountFrom * NativeUnit = BalanceBefore
    /\ AmountTo = 0
    /\ committed.v.account.tokens = {TradedIndex}
    /\ account.tokens = {}
    /\ vault[TradedToken] = 0

\* C12: a settled margin trade that withdraws nothing and returns a non-zero
\* amount, on an account whose position in the token is inactive, leaves the
\* position active, with a positive balance of the returned amount counted
\* at the deposit index and into the bank's deposits.
C12_ReturnReactivates ==
    (/\ LastMarginTrade
     /\ txn = "Settled"
     /\ AmountFrom = 0
     /\ AmountTo > 0
     /\ TradedIndex \notin committed.v.account.tokens)
        => /\ TradedIndex \in account.tokens
           /\ Cardinality(account.tokens)
                  = Cardinality(committed.v.account.tokens) + 1
           /\ positions[TradedToken] > 0
           /\ positions[TradedToken]
                  = MulDivDown(AmountTo * NativeUnit, INDEX_START,
                               bank[TradedToken].deposit_index)
           /\ bank[TradedToken].indexed_total_deposits
                  = committed.v.bank[TradedToken].indexed_total_deposits
                        + positions[TradedToken]
           /\ bank[TradedToken].indexed_total_borrows
                  = committed.v.bank[TradedToken].indexed_total_borrows

\* a position deactivated by one margin trade is active again after the next
C12_Witness ==
    /\ LastMarginTrade
    /\ txn = "Settled"
    /\ AmountFrom = 0
    /\ AmountTo = 1
    /\ committed.v.account.tokens = {}
    /\ committed.v.holding[TradedToken] = MaxTransfer
    /\ account.tokens = {TradedIndex}
    /\ ip = 3

\* the requests of http, by kind
IsQuoteRequest(r) == r.call = "GET /swap/quote"

IsSwapRequest(r) == r.call = "POST /swap"

IsSubmission(r) == r.call = "send_and_confirm"

QuoteRequests == {i \in 1..Len(http) : IsQuoteRequest(http[i])}

SwapRequests == {i \in 1..Len(http) : IsSwapRequest(http[i])}

Submissions == {i \in 1..Len(http) : IsSubmission(http[i])}

\* the account lacks a free slot for a position the swap needs
NoFreeSlot ==
    Cardinality(account.tokens
                    \cup {token_by_mint(input_mint).token_index,
                          token_by_mint(output_mint).token_index})
        > account.slots

\* C13: quote on an account without a free slot for the input or the output
\* position fails with the no-free-position error, sends no request to the
\* provider and leaves the stored account as it was.
C13_AccountFullBeforeRequest ==
    [][(pc = "quote" /\ input_mint # output_mint /\ NoFreeSlot)
           => /\ pc' = "failed"
              /\ error' = <<"no free token position">>
              /\ http = <<>>
              /\ http' = <<>>
              /\ route' = None
              /\ account' = account]_vars

\* quote failed for an account that holds the input position and has no
\* slot left for the output position
C13_Witness ==
    /\ pc = "failed"
    /\ error = <<"no free token position">>
    /\ http = <<>>
    /\ account.tokens = {0, 2}
    /\ account.slots = 2

\* C14: each provider request and the submission are sent at most once; the
\* build-action request comes right after the quote request, once a quote
\* was returned, and carries the quote's input amount; the submission comes
\* right after the build-action request, once a bundle was composed.
C14_SequentialNoRetry ==
    /\ Cardinality(QuoteRequests) <= 1
    /\ Cardinality(SwapRequests) <= 1
    /\ Cardinality(Submissions) <= 1
    /\ \A i \in SwapRequests :
           /\ i = 2
           /\ IsQuoteRequest(http[1])
           /\ route.some
           /\ http[i].amount = route.v.in_amount.v
    /\ \A i \in Submissions :
           /\ i = 3
           /\ IsSwapRequest(http[2])
           /\ tx_builder.some

\* a swap that went through: quote, build-action, submission
C14_Witness ==
    /\ pc = "done"
    /\ Len(http) = 3
    /\ QuoteRequests = {1}
    /\ SwapRequests = {2}
    /\ Submissions = {3}

\* the provider did not answer the request of this step with a well-formed
\* response
ProviderFailure ==
    \/ pc = "quote" /\ http' # http /\ ~route'.some
    \/ pc = "prepare" /\ swap_response'.some /\ swap_response'.v.kind # "ok"

\* C15: a quote or build-action request that times out or is answered by a
\* malformed response ends the swap with an error: nothing is submitted, no
\* bundle exists, and the stored account, the banks, the positions and the
\* vaults are what they were.
C15_ProviderFailureNoEffect ==
    [][ProviderFailure
           => /\ pc' = "failed"
              /\ error' # <<>>
              /\ tx_builder' = None
              /\ \A i \in 1..Len(http') : ~IsSubmission(http'[i])
              /\ account' = account
              /\ UNCHANGED envelopeVars]_vars

\* the build-action request timed out
C15_Witness ==
    /\ pc = "failed"
    /\ error = <<"swap transaction request to sanctum">>
    /\ swap_response = Some([kind |-> "send_error"])
    /\ Len(http) = 2
    /\ tx_builder = None

\* the quote lacks the input amount, or one of its two amounts is no u64
BadNumeric(q) ==
    \/ ~q.in_amount.some
    \/ ~ParseU64(q.in_amount.v).ok
    \/ ~ParseU64(q.out_amount).ok

\* C16: prepare_swap_transaction on a quote with a missing, malformed or
\* out-of-range amount returns an error to its caller: it does not panic,
\* sends no build-action request and produces no bundle.
C16_BadNumericReturnsError ==
    (route.some /\ BadNumeric(route.v) /\ pc # "prepare")
        => /\ pc = "failed"
           /\ error # <<>>
           /\ SwapRequests = {}
           /\ tx_builder = None

\* C17: a margin trade of amount_from tokens out of the vault and amount_to
\* tokens back leaves the vault at its balance before - amount_from +
\* amount_to and the trade account at its balance before + amount_from -
\* amount_to; settled or rejected, it keeps the sum of the two for every
\* token, and it moves no other token.
C17_MarginTradeConserves ==
    LastMarginTrade =>
        /\ txn = "Settled" =>
               /\ vault[TradedToken]
                      = committed.v.vault[TradedToken] - AmountFrom + AmountTo
               /\ holding[TradedToken]
                      = committed.v.holding[TradedToken] + AmountFrom - AmountTo
        /\ \A t \in DOMAIN vault :
               /\ vault[t] + holding[t]
                      = committed.v.vault[t] + committed.v.holding[t]
               /\ t # TradedToken =>
                      vault[t] = committed.v.vault[t]
                          /\ holding[t] = committed.v.holding[t]

\* a margin trade took two tokens and returned one
C17_Witness ==
    /\ LastMarginTrade
    /\ txn = "Settled"
    /\ AmountFrom = 2
    /\ AmountTo = 1
    /\ vault[TradedToken] = committed.v.vault[TradedToken] - 1
    /\ holding[TradedToken] = committed.v.holding[TradedToken] + 1

\* the bracket of the transaction being executed: what Begin lent of a token
\* and what End saw returned of it
EnvelopeBegin == tx[CHOOSE i \in 1..Len(tx) : IsBeginIx(tx[i])]

EnvelopeLent(t) ==
    LET tokens == LoanTokens(EnvelopeBegin)
    IN  IF \E i \in 1..Len(tokens) : tokens[i] = t
        THEN ToInt(EnvelopeBegin.data.loan_amounts[
                       CHOOSE i \in 1..Len(tokens) : tokens[i] = t])
        ELSE 0

\* the tokens a deposit instruction of the transaction puts into the vault
EnvelopeDeposited(t) ==
    IF \E i \in 1..Len(tx) : tx[i].data.tag = "TokenDeposit"
                                 /\ tx[i].data.token = t
    THEN (tx[CHOOSE i \in 1..Len(tx) : tx[i].data.tag = "TokenDeposit"
                                           /\ tx[i].data.token = t]).data.amount
    ELSE 0

EnvelopeReturned(t) ==
    vault[t] - committed.v.vault[t] + EnvelopeLent(t) - EnvelopeDeposited(t)

EnvelopeShortfall(t) == (EnvelopeLent(t) - EnvelopeReturned(t)) * NativeUnit

\* End has settled the loans of the transaction
EndSettled == tx_origin \in {"composer", "other"} /\ txn = "Settled"

\* a native amount inflated by the origination fee of the bank
Inflated(native_amount, b) ==
    MulDivUp(native_amount, BpsDenominator + b.loan_origination_fee_rate,
             BpsDenominator)

\* the borrow of the account, in index units, that End recorded on token t
NewBorrow(t) ==
    Positive(0 - positions[t]) - Positive(0 - committed.v.positions[t])

C19_RoundTripIsNoOp ==
    /\ (tx_origin \in {"composer", "other"} /\ txn = "LoanOpen" /\ ip >= 1
            /\ IsBeginIx(tx[ip]))
           => bank = committed.v.bank /\ positions = committed.v.positions
    /\ (EndSettled
            /\ \A t \in Tokens : EnvelopeReturned(t) = EnvelopeLent(t)
                                     /\ EnvelopeDeposited(t) = 0)
           => bank = committed.v.bank /\ positions = committed.v.positions

\* Begin([100, 0]) settled by an End that saw 100 returned
C19_Witness ==
    /\ EndSettled
    /\ tx_origin = "composer"
    /\ EnvelopeLent("token0") = 100
    /\ EnvelopeReturned("token0") = 100
    /\ EnvelopeReturned("token1") = 0
    /\ bank = committed.v.bank

\* C20: between transactions, the borrows of every bank are at most its
\* deposits.
C20_BorrowsWithinDeposits ==
    \A t \in DOMAIN bank :
        bank[t].indexed_total_borrows <= bank[t].indexed_total_deposits

\* the last transaction of the ledger was a token_register
LastTokenRegister ==
    tx_origin = "ledger" /\ tx # <<>> /\ tx[1].data.tag = "TokenRegister"

RegisteredIndex == tx[1].data.token_index

RegisteredToken == TokenNames[RegisteredIndex + 1]

RegisteredMint == tx[1].data.mint

\* C21: the bank a successful token_register creates has deposit_index and
\* borrow_index both at INDEX_START = 1,000,000, its indexed total deposits,
\* indexed total borrows and collected fees at zero, and the token_index of
\* the call.
C21_RegisteredBankStart ==
    (LastTokenRegister /\ txn = "Settled") =>
        /\ RegisteredToken \notin DOMAIN committed.v.bank
        /\ INDEX_START = 1000000
        /\ bank[RegisteredToken].deposit_index = INDEX_START
        /\ bank[RegisteredToken].borrow_index = INDEX_START
        /\ bank[RegisteredToken].indexed_total_deposits = 0
        /\ bank[RegisteredToken].indexed_total_borrows = 0
        /\ bank[RegisteredToken].collected_fees_native = 0
        /\ bank[RegisteredToken].token_index = RegisteredIndex

\* token 1 was registered after token 0
C21_Witness ==
    /\ LastTokenRegister
    /\ txn = "Settled"
    /\ RegisteredIndex = 1
    /\ "token0" \in DOMAIN committed.v.bank
    /\ bank["token1"].token_index = 1
    /\ bank["token1"].borrow_index = 1000000
    /\ bank["token1"].deposit_index = 1000000

\* C23: no two banks of the group share a token_index or a mint and no mint
\* has two MintInfo records; a token_register that reuses a token_index or a
\* mint already registered fails and leaves every account as it was.
C23_NoReuse ==
    /\ \A t1, t2 \in DOMAIN bank :
           t1 # t2 => /\ bank[t1].token_index # bank[t2].token_index
                      /\ bank[t1].mint # bank[t2].mint
    /\ \A m \in DOMAIN mint_info :
           /\ mint_info[m].mint = m
           /\ \E t \in DOMAIN bank :
                  /\ bank[t].mint = m
                  /\ bank[t].token_index = mint_info[m].token_index
    /\ Cardinality(DOMAIN mint_info) = Cardinality(DOMAIN bank)
    /\ (/\ LastTokenRegister
        /\ \/ \E t \in DOMAIN committed.v.bank :
                  committed.v.bank[t].token_index = RegisteredIndex
           \/ RegisteredMint \in DOMAIN committed.v.mint_info)
           => /\ txn = "Rejected"
              /\ bank = committed.v.bank
              /\ vault = committed.v.vault
              /\ mint_info = committed.v.mint_info

\* with mintA registered as token 0, a token_register of mintA as token 1
\* was rejected
C23_Witness ==
    /\ LastTokenRegister
    /\ txn = "Rejected"
    /\ RegisteredIndex = 1
    /\ RegisteredMint = <<"mintA">>
    /\ DOMAIN bank = {"token0"}
    /\ bank["token0"].mint = <<"mintA">>
    /\ DOMAIN mint_info = {<<"mintA">>}

\* the last instruction verified the accounts of the banks of mintA
LastVerifyBanks == tx_origin = "banks" /\ tx # <<>>

StoredBanks == mint_info[<<"mintA">>].banks

SuppliedAis == tx[1].accounts

\* C24: verify_banks_ais succeeds exactly when the keys of the supplied
\* accounts are, in number and in order, the banks stored before the first
\* empty slot (all MAX_BANKS when no slot is empty); a list that reaches or
\* passes an empty slot never succeeds.
C24_VerifyBanksAis ==
    LastVerifyBanks =>
        /\ txn = "Settled" <=>
               \E n \in 0..MAX_BANKS :
                   /\ \A i \in 1..n : StoredBanks[i] # Pubkey_default
                   /\ n < MAX_BANKS => StoredBanks[n + 1] = Pubkey_default
                   /\ Len(SuppliedAis) = n
                   /\ \A i \in 1..n : SuppliedAis[i].key = StoredBanks[i]
        /\ txn = "Settled" =>
               \A j \in 1..MAX_BANKS :
                   StoredBanks[j] = Pubkey_default => Len(SuppliedAis) < j

\* two banks, an empty slot and a bank after it: the two banks are accepted
C24_Witness ==
    /\ LastVerifyBanks
    /\ txn = "Settled"
    /\ Len(SuppliedAis) = 2
    /\ StoredBanks[3] = Pubkey_default
    /\ StoredBanks[4] # Pubkey_default

\* C22: the lookup tables of a bundle are the registered tables of the
\* account followed by the tables the provider returned, all of them and in
\* their order.
C22_LookupTablesMerged ==
    tx_builder.some =>
        LET tables == tx_builder.v.address_lookup_tables
            mango  == mango_address_lookup_tables
            theirs == swap_response.v.alts
        IN  /\ Len(tables) = Len(mango) + Len(theirs)
            /\ \A i \in 1..Len(mango) : tables[i] = mango[i]
            /\ \A i \in 1..Len(theirs) : tables[Len(mango) + i] = theirs[i]

\* a bundle composed from an answer with two lookup tables
C22_Witness ==
    /\ tx_builder.some
    /\ Len(swap_response.v.alts) = 2
    /\ Len(tx_builder.v.address_lookup_tables) = 4
    /\ tx_builder.v.address_lookup_tables[4] = swap_response.v.alts[2]

\* the instructions the composer adds to those of the provider
IsComposerIx(ix) == IsEnsureIx(ix) \/ IsBeginIx(ix) \/ IsEndIx(ix)

\* the instructions of the bundle that came from the provider, in order
ProviderPart ==
    LET FromProvider(ix) == ~IsComposerIx(ix)
    IN  SelectSeq(BundleIxs, FromProvider)

\* the instructions the provider returned that wrap nothing, in order
NotWrappingIxs ==
    LET Kept(ix) == ~IsWrappingIx(ix)
    IN  SelectSeq(swap_response.v.ixs, Kept)

MinOutput == ParseU64(http[1].quoted_amount).v

\* C26: the min_output computed for a slippage of at most 10000 bps is at
\* most the estimated output, is the estimated output at 0 bps and does not
\* grow with the slippage; from 10000 bps on it is 0.
C26_MinOutputBounded ==
    pc = "posted" =>
        /\ BCmp(max_slippage_bps, <<10000>>) <= 0 =>
               /\ BCmp(MinOutput, EstimatedOutput) <= 0
               /\ max_slippage_bps = <<>> => MinOutput = EstimatedOutput
               /\ \A s \in SlippageSamples :
                      BCmp(s, max_slippage_bps) <= 0 =>
                          BCmp(MinOutput,
                               SlippageAdjusted(EstimatedOutput, s)) <= 0
        /\ BCmp(max_slippage_bps, <<10000>>) >= 0 => MinOutput = <<>>

====
